---- MODULE Spec2Model ----
(***************************************************************************)
(* Model of the OCR grounding engine (src/src/ocr_grounder.py) and of the  *)
(* retry-driven acquisition loop launch_notepad_from_desktop               *)
(* (src/src/notepad.py) of Desktop-Automation.                             *)
(*                                                                         *)
(* Strings are sequences of one-character strings, so that str.lower(),    *)
(* == and `in` are computed.  Durations are in milliseconds.  Confidences  *)
(* are in percent.                                                         *)
(***************************************************************************)
EXTENDS Integers, Sequences, FiniteSets, TLC

VARIABLES
    max_retries,      \* config.max_retries
    retry_delay,      \* config.retry_delay, in ms
    pc,               \* position of the caller inside launch_notepad_from_desktop
    attempt,          \* the loop variable of `for attempt in range(max_retries)`
    last_error,       \* local last_error
    screenshot_path,  \* local screenshot_path (the file name of this attempt)
    result,           \* local result (a GroundingResult)
    raised,           \* the exception that left launch_notepad_from_desktop
    fs,               \* screenshots_dir: file name -> image written there
    captures_total,   \* images grabbed so far in this process (image identity)
    events,           \* calls made by the current invocation, in order
    posts_started,    \* iterations of run_automation's loop started so far
    grounder_set,     \* ocr_grounder._grounder is not None
    reader_set,       \* OCRGrounder._reader is not None
    reader_inits,     \* number of easyocr.Reader(...) constructions
    grounder_inits,   \* number of OCRGrounder() constructions
    detections,       \* per readtext call: the OCRGrounder and Reader instance used
    g_target,         \* argument `target` of a direct ground() call
    g_results,        \* what reader.readtext returns in a direct ground() call
    g_outcome         \* what that ground() call returned or raised

vars == <<max_retries, retry_delay, pc, attempt, last_error, screenshot_path,
          result, raised, fs, captures_total, events, posts_started,
          grounder_set, reader_set, reader_inits, grounder_inits, detections,
          g_target, g_results, g_outcome>>

launchVars == <<max_retries, retry_delay, pc, attempt, last_error, screenshot_path,
                result, raised, fs, captures_total, events, posts_started,
                grounder_set, reader_set, reader_inits, grounder_inits, detections>>

groundVars == <<g_target, g_results, g_outcome>>

-----------------------------------------------------------------------------
(* Bounds of the model *)

MaxRetries == 4

MaxPosts == 2

MaxFragments == 2

-----------------------------------------------------------------------------
(* Program constants *)

ICON_OFFSET == 45

SHOW_DESKTOP_SLEEP == 500

SETTLE_SLEEP == 500

WAIT_TIMEOUT == 5000

WAIT_CAP == 2000

None == [type |-> "None"]

-----------------------------------------------------------------------------
(* Strings *)

UPPER == <<"A","B","C","D","E","F","G","H","I","J","K","L","M",
           "N","O","P","Q","R","S","T","U","V","W","X","Y","Z">>

LOWER == <<"a","b","c","d","e","f","g","h","i","j","k","l","m",
           "n","o","p","q","r","s","t","u","v","w","x","y","z">>

\* upper-case letter -> its lower-case letter
LowerOf == [c \in {UPPER[i] : i \in 1..Len(UPPER)} |->
               LOWER[CHOOSE i \in 1..Len(UPPER) : UPPER[i] = c]]

LowerChar(c) == IF c \in DOMAIN LowerOf THEN LowerOf[c] ELSE c

\* str.lower()
Lower(s) == [i \in 1..Len(s) |-> LowerChar(s[i])]

\* a in b, for strings
IsSubstring(a, b) ==
    \E i \in 0..(Len(b) - Len(a)) : SubSeq(b, i + 1, i + Len(a)) = a

sNotepad == <<"N","o","t","e","p","a","d">>

sNOTEPAD == <<"N","O","T","E","P","A","D">>

sNote == <<"N","o","t","e">>

sNotes == <<"N","o","t","e","s">>

sChrome == <<"C","h","r","o","m","e">>

sEmpty == <<>>

Min(S) == CHOOSE m \in S : \A n \in S : m <= n

Max(S) == CHOOSE m \in S : \A n \in S : m >= n

RECURSIVE Pow2(_)
Pow2(n) == IF n <= 0 THEN 1 ELSE 2 * Pow2(n - 1)

-----------------------------------------------------------------------------
(* ocr_grounder.py *)

\* TextLocation.center
center(loc) == <<loc.x + loc.width \div 2, loc.y + loc.height \div 2>>

\* an anchor below the caption instead of above it
icon_centerBelow(loc) == <<loc.x + loc.width \div 2, loc.y + loc.height \div 2 + 45>>

\* TextLocation.icon_center
icon_center(loc) == <<center(loc)[1], center(loc)[2] - ICON_OFFSET>>

\* an error that keeps the lower-cased labels the matcher compared
GroundingErrorLowered(message, available_labels) ==
    [type |-> "GroundingError",
     message |-> message,
     available_labels |-> [i \in 1..Len(available_labels) |-> Lower(available_labels[i])]]

\* GroundingError.__init__: self.available_labels = available_labels or [].
\* The default None is passed here as the empty list, which `or []` maps it to.
GroundingError(message, available_labels) ==
    [type |-> "GroundingError",
     message |-> message,
     available_labels |-> IF Len(available_labels) = 0 THEN <<>> ELSE available_labels]

\* One element of find_all_text's result: the polygon normalised to a box
ToTextLocation(r) ==
    LET xs == {r.bbox[i][1] : i \in 1..Len(r.bbox)}
        ys == {r.bbox[i][2] : i \in 1..Len(r.bbox)}
        x1 == Min(xs)
        y1 == Min(ys)
        x2 == Max(xs)
        y2 == Max(ys)
    IN  [text |-> r.text, x |-> x1, y |-> y1,
         width |-> x2 - x1, height |-> y2 - y1, confidence |-> r.conf]

\* OCRGrounder.find_all_text, given what reader.readtext returned
find_all_text(results) == [i \in 1..Len(results) |-> ToTextLocation(results[i])]

\* the "exact match" loop of ground: index of the matched fragment, 0 if none
ExactMatch(all_text, target_lower) ==
    LET hits == {i \in 1..Len(all_text) : Lower(all_text[i].text) = target_lower}
    IN  IF hits = {} THEN 0 ELSE Min(hits)

\* a partial match that only looks for the target inside the fragment
PartialMatchOneWay(all_text, target_lower) ==
    LET hits == {i \in 1..Len(all_text) :
                    IsSubstring(target_lower, Lower(all_text[i].text))}
    IN  IF hits = {} THEN 0 ELSE Min(hits)

\* the "partial match" loop of ground: index of the matched fragment, 0 if none
PartialMatch(all_text, target_lower) ==
    LET hits == {i \in 1..Len(all_text) :
                    \/ IsSubstring(target_lower, Lower(all_text[i].text))
                    \/ IsSubstring(Lower(all_text[i].text), target_lower)}
    IN  IF hits = {} THEN 0 ELSE Min(hits)

\* a matcher without the exact pass
MatchIndexNoExactPass(all_text, target) ==
    LET target_lower == Lower(target)
        hits == {i \in 1..Len(all_text) :
                    \/ IsSubstring(target_lower, Lower(all_text[i].text))
                    \/ IsSubstring(Lower(all_text[i].text), target_lower)}
    IN  IF hits = {} THEN 0 ELSE Min(hits)

\* the matching part of ground: exact first, partial only when nothing matched
MatchIndex(all_text, target) ==
    LET target_lower == Lower(target)
        exact == ExactMatch(all_text, target_lower)
    IN  IF exact # 0 THEN exact ELSE PartialMatch(all_text, target_lower)

\* the GroundingResult ground builds from the matched fragment
MakeResult(matched) ==
    [x |-> icon_center(matched)[1],
     y |-> icon_center(matched)[2],
     confidence |-> matched.confidence,
     text_found |-> matched.text]

\* a ground without the `if not all_text` check: an empty scene goes to the matcher
groundNoEmptyCheck(results, target) ==
    LET all_text == [i \in 1..Len(results) |->
                        [text |-> results[i].text, x |-> 0, y |-> 0,
                         width |-> 0, height |-> 0, confidence |-> results[i].conf]]
        labels == [i \in 1..Len(all_text) |-> all_text[i].text]
        hits == {i \in 1..Len(all_text) :
                    \/ IsSubstring(Lower(target), Lower(all_text[i].text))
                    \/ IsSubstring(Lower(all_text[i].text), Lower(target))}
    IN  IF hits = {}
        THEN [ok |-> FALSE,
              error |-> [type |-> "GroundingError",
                         message |-> "not found in detected text",
                         available_labels |-> labels],
              steps |-> <<"detect", "match">>]
        ELSE [ok |-> TRUE,
              result |-> [x |-> 0, y |-> 0, confidence |-> 0, text_found |-> <<>>],
              steps |-> <<"detect", "match", "icon_center">>]

\* OCRGrounder.ground, given what reader.readtext returned for the image.
\* steps lists the parts of the body that ran.
ground(results, target) ==
    LET all_text == find_all_text(results)
        labels == [i \in 1..Len(all_text) |-> all_text[i].text]
        m == MatchIndex(all_text, target)
    IN  IF all_text = <<>>
        THEN [ok |-> FALSE,
              error |-> GroundingError("No text found in screenshot", <<>>),
              steps |-> <<"detect">>]
        ELSE IF m = 0
        THEN [ok |-> FALSE,
              error |-> GroundingError("not found in detected text", labels),
              steps |-> <<"detect", "match">>]
        ELSE [ok |-> TRUE,
              result |-> MakeResult(all_text[m]),
              steps |-> <<"detect", "match", "icon_center">>]

\* ocr_grounder.get_grounder: <<_grounder is set, constructions of OCRGrounder>>
\* after a call
get_grounder(isSet, inits) ==
    IF ~isSet THEN <<TRUE, inits + 1>> ELSE <<TRUE, inits>>

\* a reader property that builds a new engine on every access
readerAlwaysNew(isSet, inits) == <<TRUE, inits + 1>>

\* OCRGrounder.reader, when easyocr.Reader(...) does not raise:
\* <<_reader is set, constructions of easyocr.Reader>> after the access
reader(isSet, inits) ==
    IF ~isSet THEN <<TRUE, inits + 1>> ELSE <<TRUE, inits>>

-----------------------------------------------------------------------------
(* What the recognition engine can report *)

PolyA == << <<100, 200>>, <<150, 200>>, <<150, 220>>, <<100, 220>> >>

PolyB == << <<10, 52>>, <<61, 50>>, <<63, 71>>, <<12, 73>> >>

PolyC == << <<0, 0>>, <<41, 0>>, <<41, 10>>, <<0, 10>> >>

Texts == {sNotepad, sNOTEPAD, sNote, sNotes, sChrome, sEmpty}

Polys == {PolyA, PolyB, PolyC}

Confs == {50, 90}

Fragments == [bbox : Polys, text : Texts, conf : Confs]

RECURSIVE SeqsUpTo(_, _)
SeqsUpTo(S, n) ==
    IF n = 0 THEN {<<>>}
    ELSE LET shorter == SeqsUpTo(S, n - 1)
         IN  shorter \cup {Append(s, e) : s \in {t \in shorter : Len(t) = n - 1}, e \in S}

\* every readtext result of at most MaxFragments fragments
Scenes == SeqsUpTo(Fragments, MaxFragments)

Targets == {sNotepad, sNote, sNOTEPAD, sChrome}

Frag(t, b, c) == [bbox |-> b, text |-> t, conf |-> c]

\* the desktops the screen can show when launch_notepad_from_desktop captures it
Desktops ==
    { <<>>,
      <<Frag(sChrome, PolyA, 90), Frag(sNotes, PolyB, 50)>>,
      <<Frag(sNotes, PolyC, 90)>>,
      <<Frag(sNote, PolyB, 50), Frag(sNOTEPAD, PolyA, 90)>>,
      <<Frag(sChrome, PolyB, 90), Frag(sNote, PolyC, 50)>> }

RetryDelays == {0, 1000, 1500}

-----------------------------------------------------------------------------
(* notepad.py *)

Event(op, site, at, val) == [op |-> op, site |-> site, attempt |-> at, val |-> val]

\* wait_for_notepad(timeout=5.0): the time it sleeps
wait_for_notepad == Min({WAIT_TIMEOUT, WAIT_CAP})

\* a linear instead of an exponential backoff
wait_timeLinear(delay, k) == delay * (k + 1)

\* wait_time = config.retry_delay * (2 ** attempt)
wait_time(delay, k) == delay * Pow2(k)

\* a loop that sleeps after the final attempt too
ShouldSleepAlways(k, retries) == k < retries

\* the guard of the sleep in the except block
ShouldSleep(k, retries) == k < retries - 1

\* screenshot file name of an attempt: desktop_attempt_{attempt + 1}.png
Filename(k) == k + 1

\* a capture that keeps a screenshot file that already exists
WriteFileKeepExisting(files, name, image) == files @@ (name :> image)

\* the file capture_desktop writes: mss.tools.to_png(..., output=str(output_path))
WriteFile(files, name, image) == (name :> image) @@ files

\* a click with its coordinates swapped
ClickPointSwapped(res) == <<res.y, res.x>>

\* the arguments of mk.double_click(result.x, result.y)
ClickPoint(res) == <<res.x, res.y>>

\* a success path without its `return`: the loop goes on
ClickNextNoReturn == "capture"

\* where control goes after wait_for_notepad(): the `return` of line 64
ClickNext == "returned"

\* a final raise without the fallback error
FinalErrorNoFallback(err) == err

\* raise last_error or GroundingError("Failed to launch Notepad after all retries")
FinalError(err) ==
    IF err # None THEN err
    ELSE GroundingError("Failed to launch Notepad after all retries", <<>>)

Init ==
    /\ max_retries \in -1..MaxRetries
    /\ retry_delay \in RetryDelays
    /\ pc = "idle"
    /\ attempt = 0
    /\ last_error = None
    /\ screenshot_path = 0
    /\ result = None
    /\ raised = None
    /\ fs = <<>>
    /\ captures_total = 0
    /\ events = <<>>
    /\ posts_started = 0
    /\ grounder_set = FALSE
    /\ reader_set = FALSE
    /\ reader_inits = 0
    /\ grounder_inits = 0
    /\ detections = <<>>
    /\ g_target = sNotepad
    /\ g_results = <<>>
    /\ g_outcome = None

\* run_automation's loop calls launch_notepad_from_desktop; lines 36-45
LaunchStart ==
    /\ pc \in {"idle", "returned"}
    /\ posts_started < MaxPosts
    /\ posts_started' = posts_started + 1
    /\ events' = <<Event("show_desktop", "", -1, 0),
                   Event("sleep", "show_desktop", -1, SHOW_DESKTOP_SLEEP),
                   Event("sleep", "settle", -1, SETTLE_SLEEP)>>
    /\ last_error' = None
    /\ result' = None
    /\ screenshot_path' = 0
    /\ attempt' = 0
    /\ pc' = IF 0 < max_retries THEN "capture" ELSE "raise"
    /\ UNCHANGED <<max_retries, retry_delay, raised, fs, captures_total,
                   grounder_set, reader_set, reader_inits, grounder_inits, detections,
                   groundVars>>

\* screenshot.capture_desktop(config.screenshots_dir, f"desktop_attempt_{attempt + 1}.png")
Capture ==
    /\ pc = "capture"
    /\ \/ \E scene \in Desktops :
            /\ captures_total' = captures_total + 1
            /\ fs' = WriteFile(fs, Filename(attempt),
                             [id |-> captures_total + 1, results |-> scene])
            /\ screenshot_path' = Filename(attempt)
            /\ events' = Append(events, Event("capture", "", attempt, captures_total + 1))
            /\ pc' = "ground"
            /\ UNCHANGED raised
       \/ /\ raised' = [type |-> "ScreenShotError"]
          /\ events' = Append(events, Event("capture", "", attempt, 0))
          /\ pc' = "aborted"
          /\ UNCHANGED <<captures_total, fs, screenshot_path>>
    /\ UNCHANGED <<max_retries, retry_delay, attempt, last_error, result, posts_started,
                   grounder_set, reader_set, reader_inits, grounder_inits, detections,
                   groundVars>>

\* result = ground_icon(screenshot_path, "Notepad"), and `except GroundingError as e:
\* last_error = e` when it raises one.  The instance ids are the construction counts.
Ground ==
    /\ pc = "ground"
    /\ grounder_set' = get_grounder(grounder_set, grounder_inits)[1]
    /\ grounder_inits' = get_grounder(grounder_set, grounder_inits)[2]
    /\ events' = Append(events, Event("ground", "", attempt, fs[screenshot_path].id))
    /\ \/ /\ reader_set' = reader(reader_set, reader_inits)[1]
          /\ reader_inits' = reader(reader_set, reader_inits)[2]
          /\ detections' = Append(detections, [grounder |-> grounder_inits',
                                               reader |-> reader_inits'])
          /\ \/ LET out == ground(fs[screenshot_path].results, sNotepad)
                IN  /\ result' = IF out.ok THEN out.result ELSE result
                    /\ last_error' = IF out.ok THEN last_error ELSE out.error
                    /\ pc' = IF out.ok THEN "click" ELSE "backoff"
                    /\ UNCHANGED raised
             \/ /\ raised' = [type |-> "EngineError"]
                /\ pc' = "aborted"
                /\ UNCHANGED <<result, last_error>>
       \/ /\ ~reader_set
          /\ raised' = [type |-> "ReaderInitError"]
          /\ pc' = "aborted"
          /\ UNCHANGED <<reader_set, reader_inits, detections, result, last_error>>
    /\ UNCHANGED <<max_retries, retry_delay, attempt, screenshot_path, fs, captures_total,
                   posts_started, groundVars>>

\* mk.double_click(result.x, result.y); wait_for_notepad(); return
Click ==
    /\ pc = "click"
    /\ events' = events \o <<Event("double_click", "", attempt, ClickPoint(result)),
                             Event("sleep", "wait_for_notepad", attempt, wait_for_notepad)>>
    /\ pc' = ClickNext
    /\ UNCHANGED <<max_retries, retry_delay, attempt, last_error, screenshot_path, result,
                   raised, fs, captures_total, posts_started,
                   grounder_set, reader_set, reader_inits, grounder_inits, detections,
                   groundVars>>

\* the rest of the except block (lines 68-73) and the loop's next iteration
Backoff ==
    /\ pc = "backoff"
    /\ events' = IF ShouldSleep(attempt, max_retries)
                 THEN Append(events, Event("sleep", "backoff", attempt,
                                           wait_time(retry_delay, attempt)))
                 ELSE events
    /\ IF attempt + 1 < max_retries
       THEN attempt' = attempt + 1 /\ pc' = "capture"
       ELSE attempt' = attempt /\ pc' = "raise"
    /\ UNCHANGED <<max_retries, retry_delay, last_error, screenshot_path, result,
                   raised, fs, captures_total, posts_started,
                   grounder_set, reader_set, reader_inits, grounder_inits, detections,
                   groundVars>>

\* line 76
Raise ==
    /\ pc = "raise"
    /\ raised' = FinalError(last_error)
    /\ pc' = "failed"
    /\ UNCHANGED <<max_retries, retry_delay, attempt, last_error, screenshot_path, result,
                   fs, captures_total, events, posts_started,
                   grounder_set, reader_set, reader_inits, grounder_inits, detections,
                   groundVars>>

Next == LaunchStart \/ Capture \/ Ground \/ Click \/ Backoff \/ Raise

Spec == Init /\ [][Next]_vars

-----------------------------------------------------------------------------
(* ground() called directly on any target and any readtext result *)

GroundInit ==
    /\ max_retries = 3
    /\ retry_delay = 1000
    /\ pc = "idle"
    /\ attempt = 0
    /\ last_error = None
    /\ screenshot_path = 0
    /\ result = None
    /\ raised = None
    /\ fs = <<>>
    /\ captures_total = 0
    /\ events = <<>>
    /\ posts_started = 0
    /\ grounder_set = FALSE
    /\ reader_set = FALSE
    /\ reader_inits = 0
    /\ grounder_inits = 0
    /\ detections = <<>>
    /\ g_target \in Targets
    /\ g_results \in Scenes
    /\ g_outcome = None

GroundCall ==
    /\ g_outcome = None
    /\ g_outcome' = ground(g_results, g_target)
    /\ UNCHANGED <<g_target, g_results, launchVars>>

GroundNext == GroundCall

GroundSpec == GroundInit /\ [][GroundNext]_vars

-----------------------------------------------------------------------------
(* Reading the log of the current invocation *)

IsCapture(e) == e.op = "capture"

IsGround(e) == e.op = "ground"

IsBackoffSleep(e) == e.op = "sleep" /\ e.site = "backoff"

IsClick(e) == e.op = "double_click"

CaptureEvents == SelectSeq(events, IsCapture)

GroundEvents == SelectSeq(events, IsGround)

BackoffSleeps == SelectSeq(events, IsBackoffSleep)

\* what grounding the image captured by attempt k of this invocation gives
AttemptOutcome(k) == ground(fs[k + 1].results, sNotepad)

-----------------------------------------------------------------------------
(* C1  Exhaustion: when max_retries >= 1 and every attempt raised a        *)
(* GroundingError, the invocation made exactly max_retries captures and    *)
(* ground calls (attempts 0..max_retries-1 in order), exactly              *)
(* max_retries - 1 backoff sleeps, none of them after the last attempt,    *)
(* and the exception it raises is the GroundingError of the last attempt,  *)
(* with the same message and available_labels.                             *)

C1_Exhaustion ==
    (pc = "failed" /\ max_retries >= 1) =>
        /\ Len(CaptureEvents) = max_retries
        /\ Len(GroundEvents) = max_retries
        /\ \A j \in 1..max_retries : GroundEvents[j].attempt = j - 1
        /\ Len(BackoffSleeps) = max_retries - 1
        /\ \A j \in 1..Len(BackoffSleeps) : BackoffSleeps[j].attempt < max_retries - 1
        /\ events[Len(events)].op = "ground"
        /\ events[Len(events)].attempt = max_retries - 1
        /\ ~AttemptOutcome(max_retries - 1).ok
        /\ raised = AttemptOutcome(max_retries - 1).error
        /\ raised.available_labels =
              [i \in 1..Len(fs[max_retries].results) |-> fs[max_retries].results[i].text]

C1_Witness ==
    /\ pc = "failed"
    /\ max_retries = 3
    /\ Len(GroundEvents) = 3
    /\ Len(BackoffSleeps) = 2
    /\ raised.available_labels = <<sNotes>>
    /\ AttemptOutcome(0).error.available_labels = <<sChrome, sNotes>>

(* C2  Backoff schedule: the j-th backoff sleep of an invocation follows   *)
(* the failed ground call of attempt j-1 and lasts retry_delay * 2^(j-1);  *)
(* an invocation that returns after succeeding in attempt k has made       *)
(* exactly k backoff sleeps, those of attempts 0..k-1.                     *)

C2_BackoffSchedule ==
    /\ \A j \in 1..Len(BackoffSleeps) :
          /\ BackoffSleeps[j].attempt = j - 1
          /\ BackoffSleeps[j].val = retry_delay * 2^(j - 1)
    /\ \A i \in 1..Len(events) :
          IsBackoffSleep(events[i]) =>
              /\ i > 1
              /\ IsGround(events[i - 1])
              /\ events[i - 1].attempt = events[i].attempt
              /\ ~AttemptOutcome(events[i].attempt).ok
    /\ pc = "returned" =>
          /\ Len(BackoffSleeps) = attempt
          /\ AttemptOutcome(attempt).ok
          /\ \A k \in 0..(attempt - 1) : ~AttemptOutcome(k).ok

C2_Witness ==
    /\ pc = "returned"
    /\ attempt = 3
    /\ retry_delay = 1000
    /\ Len(BackoffSleeps) = 3
    /\ BackoffSleeps[1].val = 1000
    /\ BackoffSleeps[2].val = 2000
    /\ BackoffSleeps[3].val = 4000

(* C3  Every failure inside one attempt is retryable: a capture failure or *)
(* a detection failure never ends the loop while attempts remain (the      *)
(* loop goes on to sleep and to the next attempt, as after a match         *)
(* failure).                                                               *)

C3_EveryFailureRetryable ==
    (pc = "aborted") => ~(attempt < max_retries - 1)

(* C4  Fresh capture per attempt: the captures of an invocation are as     *)
(* many as the attempts it started; every ground call comes right after    *)
(* the capture of its own attempt and reads the very image that capture    *)
(* produced, an image no earlier capture or ground call has seen.          *)

AttemptsStarted ==
    IF pc = "idle" \/ max_retries < 1 THEN 0
    ELSE IF pc = "capture" THEN attempt
    ELSE attempt + 1

C4_FreshCapture ==
    /\ pc # "capture" => Len(CaptureEvents) = AttemptsStarted
    /\ \A j \in 1..Len(CaptureEvents) : CaptureEvents[j].attempt = j - 1
    /\ \A i \in 1..Len(events) :
          IsGround(events[i]) =>
              /\ i > 1
              /\ IsCapture(events[i - 1])
              /\ events[i - 1].attempt = events[i].attempt
              /\ events[i].val = events[i - 1].val
              /\ \A h \in 1..(i - 2) :
                    (IsCapture(events[h]) \/ IsGround(events[h])) =>
                        events[h].val # events[i].val
    /\ pc = "ground" => fs[screenshot_path].id = captures_total

C4_Witness ==
    /\ posts_started = 2
    /\ Len(GroundEvents) = 2
    /\ GroundEvents[2].attempt = 1
    /\ GroundEvents[1].val = 3
    /\ GroundEvents[2].val = 4

(* C5  On success the loop returns at once: after a ground call that       *)
(* succeeded, the invocation makes no capture, no ground call and no       *)
(* backoff sleep, however many attempts remain; it only clicks and waits   *)
(* for Notepad.                                                            *)

C5_ReturnOnSuccess ==
    /\ \A i \in 1..Len(events) :
          (IsGround(events[i]) /\ AttemptOutcome(events[i].attempt).ok) =>
              \A j \in (i + 1)..Len(events) :
                  /\ ~IsCapture(events[j])
                  /\ ~IsGround(events[j])
                  /\ ~IsBackoffSleep(events[j])
    /\ pc = "returned" =>
          /\ Len(CaptureEvents) = attempt + 1
          /\ Len(GroundEvents) = attempt + 1
          /\ Len(BackoffSleeps) = attempt
          /\ IsClick(events[Len(events) - 1])

C5_Witness ==
    /\ pc = "returned"
    /\ max_retries = 3
    /\ attempt = 0
    /\ Len(CaptureEvents) = 1
    /\ Len(GroundEvents) = 1
    /\ Len(BackoffSleeps) = 0

-----------------------------------------------------------------------------
(* Reading a direct ground() call *)

\* the texts of the fragments the engine reported, in its order
DetectedTexts == [i \in 1..Len(g_results) |-> g_results[i].text]

IsExact(i) == Lower(g_results[i].text) = Lower(g_target)

IsPartial(i) ==
    \/ IsSubstring(Lower(g_target), Lower(g_results[i].text))
    \/ IsSubstring(Lower(g_results[i].text), Lower(g_target))

\* fragment i is the first one that satisfies P
IsFirst(P(_), i) == P(i) /\ \A h \in 1..(i - 1) : ~P(h)

\* the GroundingResult expected when fragment i is the matched one
ResultOf(i) ==
    LET xs == {g_results[i].bbox[k][1] : k \in 1..4}
        ys == {g_results[i].bbox[k][2] : k \in 1..4}
        left == Min(xs)
        top == Min(ys)
        width == Max(xs) - left
        height == Max(ys) - top
    IN  [x |-> left + width \div 2,
         y |-> top + height \div 2 - 45,
         confidence |-> g_results[i].conf,
         text_found |-> g_results[i].text]

(* C6  Exact match precedence: when some fragment's lower-cased text       *)
(* equals the lower-cased target, ground succeeds with the first such      *)
(* fragment, even if a fragment that only substring-matches comes          *)
(* earlier.                                                                *)

C6_ExactPrecedence ==
    (g_outcome # None) =>
        \A i \in 1..Len(g_results) :
            IsFirst(IsExact, i) => (g_outcome.ok /\ g_outcome.result = ResultOf(i))

C6_Witness ==
    /\ g_outcome # None
    /\ g_target = sNotepad
    /\ DetectedTexts = <<sNote, sNOTEPAD>>
    /\ g_outcome.ok
    /\ g_outcome.result.text_found = sNOTEPAD

(* C7  Bidirectional substring match, first occurrence: when no fragment   *)
(* matches exactly, ground succeeds with the first fragment whose          *)
(* lower-cased text contains the lower-cased target or is contained in     *)
(* it; target "Note" matches fragment "Notepad" and target "Notepad"       *)
(* matches fragment "Note".                                                *)

C7_BidirectionalSubstring ==
    (g_outcome # None /\ \A h \in 1..Len(g_results) : ~IsExact(h)) =>
        \A i \in 1..Len(g_results) :
            IsFirst(IsPartial, i) => (g_outcome.ok /\ g_outcome.result = ResultOf(i))

C7_Witness ==
    /\ g_outcome # None
    /\ g_target = sNotepad
    /\ DetectedTexts = <<sChrome, sNote>>
    /\ g_outcome.ok
    /\ g_outcome.result.text_found = sNote

(* C8  Diagnostic completeness: ground raises the "not found" error if     *)
(* and only if there are fragments and none satisfies the exact or the     *)
(* substring test, and then available_labels is the list of all fragment   *)
(* texts in detector order, unmodified.                                    *)

IsNoMatchError(o) == ~o.ok /\ o.error.message = "not found in detected text"

C8_DiagnosticCompleteness ==
    (g_outcome # None) =>
        /\ IsNoMatchError(g_outcome) <=>
              (g_results # <<>> /\ \A i \in 1..Len(g_results) : ~IsExact(i) /\ ~IsPartial(i))
        /\ IsNoMatchError(g_outcome) =>
              (g_outcome.error.type = "GroundingError"
               /\ g_outcome.error.available_labels = DetectedTexts)

C8_Witness ==
    /\ g_outcome # None
    /\ g_target = sNote
    /\ DetectedTexts = <<sChrome, sChrome>>
    /\ IsNoMatchError(g_outcome)
    /\ g_outcome.error.available_labels = <<sChrome, sChrome>>

(* C9  Empty-scene short-circuit: when detection yields no fragment,       *)
(* ground raises, for every target, the "No text found" GroundingError     *)
(* with an empty available_labels, and the matching steps do not run.      *)

C9_EmptyScene ==
    (g_outcome # None /\ g_results = <<>>) =>
        /\ ~g_outcome.ok
        /\ g_outcome.error.type = "GroundingError"
        /\ g_outcome.error.message = "No text found in screenshot"
        /\ g_outcome.error.available_labels = <<>>
        /\ g_outcome.steps = <<"detect">>

C9_Witness ==
    /\ g_outcome # None
    /\ g_results = <<>>
    /\ g_target = sNote
    /\ ~g_outcome.ok

(* C10  Anchor offset: the coordinates of a GroundingResult are            *)
(* x = left + width div 2 and y = top + height div 2 - 45 of the matched   *)
(* fragment's box; the box left=100, top=200, width=50, height=20 resolves *)
(* to (125, 165).                                                          *)

C10_AnchorOffset ==
    /\ icon_center([text |-> sNotepad, x |-> 100, y |-> 200,
                    width |-> 50, height |-> 20, confidence |-> 90]) = <<125, 165>>
    /\ (g_outcome # None /\ g_outcome.ok) =>
          \E i \in 1..Len(g_results) :
              /\ g_outcome.result.text_found = g_results[i].text
              /\ g_outcome.result.x = ResultOf(i).x
              /\ g_outcome.result.y = ResultOf(i).y
              /\ (IsFirst(IsExact, i)
                  \/ (IsFirst(IsPartial, i) /\ \A h \in 1..Len(g_results) : ~IsExact(h)))

C10_Witness ==
    /\ g_outcome # None
    /\ g_outcome.ok
    /\ Len(g_results) = 2
    /\ g_results[1].bbox = PolyA
    /\ g_results[2].bbox = PolyB
    /\ g_outcome.result.text_found = g_results[2].text
    /\ g_outcome.result.x = 36
    /\ g_outcome.result.y = 16

-----------------------------------------------------------------------------
(* C11  Initialize-once engine: in one process easyocr.Reader is built at  *)
(* most once, by the first detection and not before it, and OCRGrounder    *)
(* is built at most once; every detection, in every attempt and every      *)
(* invocation, runs on that one OCRGrounder and that one Reader.           *)

C11_InitializeOnce ==
    /\ reader_inits <= 1
    /\ grounder_inits <= 1
    /\ reader_set <=> (reader_inits = 1)
    /\ grounder_set <=> (grounder_inits = 1)
    /\ (reader_inits = 1) <=> (Len(detections) >= 1)
    /\ \A i \in 1..Len(detections) :
          detections[i].grounder = 1 /\ detections[i].reader = 1

C11_Witness ==
    /\ posts_started = 2
    /\ Len(detections) = 4
    /\ Len(GroundEvents) = 2
    /\ reader_inits = 1
    /\ grounder_inits = 1

IsSleep(e) == e.op = "sleep"

ClickEvents == SelectSeq(events, IsClick)

(* C12  Click only on a successful grounding: an invocation issues at most *)
(* one double-click; it comes right after the ground call of the same      *)
(* attempt, that ground call succeeded, and its coordinates are the (x, y) *)
(* of that attempt's GroundingResult; an invocation that ends by raising   *)
(* has issued none.                                                        *)

C12_ClickOnlyOnSuccess ==
    /\ Len(ClickEvents) <= 1
    /\ \A i \in 1..Len(events) :
          IsClick(events[i]) =>
              /\ i > 1
              /\ IsGround(events[i - 1])
              /\ events[i - 1].attempt = events[i].attempt
              /\ AttemptOutcome(events[i].attempt).ok
              /\ events[i].val = <<AttemptOutcome(events[i].attempt).result.x,
                                   AttemptOutcome(events[i].attempt).result.y>>
    /\ pc \in {"failed", "aborted", "raise", "backoff"} => Len(ClickEvents) = 0
    /\ pc = "returned" => Len(ClickEvents) = 1

C12_Witness ==
    /\ pc = "returned"
    /\ attempt = 1
    /\ Len(ClickEvents) = 1
    /\ ClickEvents[1].attempt = 1
    /\ ClickEvents[1].val = <<125, 165>>
    /\ result.text_found = sNOTEPAD

(* C13  Degenerate retry policy, as claimed: max_retries is not validated; *)
(* when it is 0 or negative the invocation makes no capture, no ground     *)
(* call, no sleep and no click, and raises a freshly built GroundingError  *)
(* ("Failed to launch Notepad after all retries") with empty               *)
(* available_labels.                                                       *)

C13_DegenerateNoSleep ==
    (pc = "failed" /\ max_retries <= 0) =>
        /\ \A i \in 1..Len(events) :
              /\ ~IsCapture(events[i])
              /\ ~IsGround(events[i])
              /\ ~IsSleep(events[i])
              /\ ~IsClick(events[i])
        /\ raised = [type |-> "GroundingError",
                     message |-> "Failed to launch Notepad after all retries",
                     available_labels |-> <<>>]

(* C13  Degenerate retry policy, amended: when max_retries is 0 or         *)
(* negative the invocation makes no capture, no ground call, no backoff    *)
(* sleep and no click - it only shows the desktop and makes the two fixed  *)
(* 0.5 s sleeps that precede the loop - and raises the freshly built       *)
(* GroundingError with empty available_labels; no detection has run and    *)
(* no engine has been built.                                               *)

C13_DegenerateRetryPolicy ==
    (pc = "failed" /\ max_retries <= 0) =>
        /\ events = <<Event("show_desktop", "", -1, 0),
                      Event("sleep", "show_desktop", -1, 500),
                      Event("sleep", "settle", -1, 500)>>
        /\ \A i \in 1..Len(events) :
              /\ ~IsCapture(events[i])
              /\ ~IsGround(events[i])
              /\ ~IsBackoffSleep(events[i])
              /\ ~IsClick(events[i])
        /\ raised = [type |-> "GroundingError",
                     message |-> "Failed to launch Notepad after all retries",
                     available_labels |-> <<>>]
        /\ last_error = None
        /\ captures_total = 0
        /\ detections = <<>>
        /\ reader_inits = 0

C13_Witness ==
    /\ pc = "failed"
    /\ max_retries = -1
    /\ raised.type = "GroundingError"
    /\ raised.available_labels = <<>>
    /\ Len(events) = 3

====
